---- MODULE Spec2Model ----
(***************************************************************************)
(* Model of the LLM orchestration pattern layer of 04-AI-Patterns:         *)
(*   01-Prompt-Chaining.py  the Chain Orchestrator                         *)
(*   02-routing.py          the Router                                     *)
(*   03-parallization.py    the Fan-out Coordinator                        *)
(* and of the tool-augmented steps of 03-AI-Introduction:                  *)
(*   03-tools.py            the weather tool                               *)
(*   04-retrieval.py        the knowledge base tool                        *)
(* Each script is one process.  It runs its scenarios in order; every      *)
(* scenario is one invocation of the script's orchestration function.      *)
(* The Completion Client is the environment: each issued call either       *)
(* raises (transport error) or returns a message whose content is absent   *)
(* or is some text, which the step hands to json.loads and to the schema.  *)
(*                                                                         *)
(* Confidence scores are written in units of 1/10000, so 0.7 is 7000 and   *)
(* 0.6999 is 6999.                                                         *)
(***************************************************************************)
EXTENDS Integers, Sequences, FiniteSets, TLC

VARIABLES
    script,         \* which script this process runs
    scenario,       \* index of the scenario (TEST #n) being run
    pc,             \* position of the orchestration function
    user_input,     \* the argument of the current invocation
    calls,          \* Completion Client calls issued by the current invocation
    received,       \* the answers to them that have arrived, in order of arrival
    result,         \* chain: EventValidation returned by validate_event_description
    details,        \* chain: EventDetails returned by extract_event
    classification, \* router: RequestType returned by clasify_request
    outcome,        \* how the current invocation ended
    error,          \* the exception the current invocation raised
    ret,            \* the value the current invocation returned
    task,           \* fan-out: state of each task of the gather
    taskResult,     \* fan-out: typed result of each succeeded task
    taskError,      \* fan-out: exception of each failed task
    doneq,          \* fan-out: completed tasks whose gather callback is pending
    nfinished,      \* fan-out: gather's count of tasks seen finished
    outer,          \* fan-out: state of the future returned by gather
    outerError,     \* fan-out: exception set on the future returned by gather
    loop,           \* fan-out: state of the event loop of asyncio.run
    printed,        \* boxes printed by the script so far
    tool,           \* tool scripts: the locals of the two-call protocol
    parsed,         \* parser: the instance built from a serialized instance
    box             \* print_box: its arguments, the line in work, the rows printed

vars == <<script, scenario, pc, user_input, calls, received, result, details, classification,
          outcome, error, ret, task, taskResult, taskError, doneq, nfinished, outer,
          outerError, loop, printed, tool, parsed, box>>

(***************************************************************************)
(* Bounds of the model.                                                    *)
(***************************************************************************)
\* number of distinct rephrased descriptions the model may answer with
NumRephrasings == 2

(***************************************************************************)
(* Program constants.                                                      *)
(***************************************************************************)
\* result.confidence_score < 0.7 (chain gate)
ChainThreshold == 7000
\* classification.confidence_score < 0.7 (router gate)
RouterThreshold == 7000
\* results[0].confidence_score > 0.7 (fan-out relevance)
FanoutThreshold == 7000
\* Field(ge=0.0)
ConfMin == 0
\* Field(le=1.0)
ConfMax == 10000
\* the scripts' scenarios: TEST #1, #2 of the chain; #1..#3 of the router;
\* run_valid_example, run_malicious_example of the fan-out
ChainScenarios == 2
RouterScenarios == 3
FanoutScenarios == 2

\* the scripts of 04-AI-Patterns and of 03-AI-Introduction
PatternScripts == {"chain", "router", "fanout"}
ToolScripts == {"tools", "retrieval"}
Scripts == PatternScripts \cup ToolScripts

NumScenarios(s) ==
    CASE s = "chain"  -> ChainScenarios
      [] s = "router" -> RouterScenarios
      [] s = "fanout" -> FanoutScenarios

(***************************************************************************)
(* Texts.  A text is a pair <<origin, index>>: the caller's input of       *)
(* scenario n, or one of the descriptions the model rephrases it to.       *)
(***************************************************************************)
UserInput(n) == <<"user_input", n>>
Rephrased == {<<"rephrased", i>> : i \in 1..NumRephrasings}
NoText == <<"none", 0>>

(***************************************************************************)
(* JSON values as the model may write them into a field.                   *)
(***************************************************************************)
JMissing  == [t |-> "missing", b |-> FALSE, n |-> 0, s |-> NoText, e |-> "-"]
JBool(x)  == [t |-> "bool",    b |-> x,     n |-> 0, s |-> NoText, e |-> "-"]
JNum(x)   == [t |-> "num",     b |-> FALSE, n |-> x, s |-> NoText, e |-> "-"]
JStr(x)   == [t |-> "str",     b |-> FALSE, n |-> 0, s |-> x,      e |-> "-"]
JEnum(x)  == [t |-> "enum",    b |-> FALSE, n |-> 0, s |-> NoText, e |-> x]
JList     == [t |-> "list",    b |-> FALSE, n |-> 0, s |-> NoText, e |-> "-"]
JNull     == [t |-> "null",    b |-> FALSE, n |-> 0, s |-> NoText, e |-> "-"]
\* a JSON string that spells the number x, as in "confidence_score": "0.9"
JNumStr(x) == [t |-> "numstr", b |-> FALSE, n |-> x, s |-> NoText, e |-> "-"]

\* the confidence values the model may write: below, at and above the gate,
\* the ends of the declared range, and one value beyond each end
ConfValues == {-1000, 0, 6999, 7000, 7001, 10000, 11000}

RawBool == {JBool(TRUE), JBool(FALSE), JMissing, JList}
\* the confidence values the model may write as a string
ConfStrings == {7001, 11000}
RawConf ==
    {JNum(c) : c \in ConfValues} \cup {JNumStr(c) : c \in ConfStrings} \cup {JMissing, JList}
RawText == {JStr(d) : d \in Rephrased} \cup {JMissing}

(***************************************************************************)
(* The Completion Client's answers.  A response either raises inside       *)
(* ai.chat.completions.create, or carries message.content = None, or text  *)
(* that is not JSON, or a JSON object with the fields written below.       *)
(***************************************************************************)
FailureKinds == {"transport_error", "no_content", "not_json"}

Responses(fieldSets, default) ==
    {[kind |-> k, fields |-> default] : k \in FailureKinds}
        \cup {[kind |-> "object", fields |-> f] : f \in fieldSets}

\* ---- EventValidation (01-Prompt-Chaining.py)
EVFields ==
    [description : RawText, is_event : RawBool, confidence_score : RawConf]
EVDefault ==
    [description |-> JMissing, is_event |-> JMissing, confidence_score |-> JMissing]
EVResponses == Responses(EVFields, EVDefault)

NoValidation ==
    [valid |-> FALSE, description |-> NoText, is_event |-> FALSE, confidence_score |-> 0]

\* a float field of a strict model: a JSON number and nothing else
FloatFieldStrict(raw) == raw.t = "num"

\* a float field of a pydantic model: the value is a number, or a string
\* that float() reads as one
FloatFieldOk(raw) == raw.t \in {"num", "numstr"}

\* a float field without ge/le
ConfFieldOkUnbounded(raw) == FloatFieldOk(raw)

\* a float field with ge/le bounds, applied to the converted value
ConfFieldOk(raw) == FloatFieldOk(raw) /\ raw.n >= ConfMin /\ raw.n <= ConfMax

EventValidationOk(f) ==
    /\ f.description.t = "str"
    /\ f.is_event.t = "bool"
    /\ ConfFieldOk(f.confidence_score)

\* EventValidation(json.loads(response) as keywords)
EventValidation(f) ==
    [valid |-> TRUE, description |-> f.description.s, is_event |-> f.is_event.b,
     confidence_score |-> f.confidence_score.n]

\* ---- EventDetails (01-Prompt-Chaining.py)
EventNames == {<<"event_name", 1>>}
EventDates == {<<"event_date", 1>>}
EDFields ==
    [name : {JStr(x) : x \in EventNames} \cup {JMissing},
     date : {JStr(x) : x \in EventDates} \cup {JMissing},
     duration : {JNum(60), JList},
     participants : {JList, JMissing}]
EDDefault ==
    [name |-> JMissing, date |-> JMissing, duration |-> JMissing, participants |-> JMissing]
EDResponses == Responses(EDFields, EDDefault)

NoDetails == [valid |-> FALSE, name |-> NoText, date |-> NoText, duration |-> 0]

EventDetailsOk(f) ==
    /\ f.name.t = "str"
    /\ f.date.t = "str"
    /\ f.duration.t = "num"
    /\ f.participants.t = "list"

\* EventDetails(json.loads(response) as keywords)
EventDetails(f) ==
    [valid |-> TRUE, name |-> f.name.s, date |-> f.date.s, duration |-> f.duration.n]

\* ---- EventConfirmation (01-Prompt-Chaining.py)
Messages == {<<"confirmation_message", 1>>}
Links == {<<"calendar_link", 1>>}
ECFields ==
    [confirmation_message : {JStr(x) : x \in Messages} \cup {JMissing, JList},
     calendar_link : {JStr(x) : x \in Links} \cup {JNull}]
ECDefault == [confirmation_message |-> JMissing, calendar_link |-> JNull]
ECResponses == Responses(ECFields, ECDefault)

EventConfirmationOk(f) ==
    /\ f.confirmation_message.t = "str"
    /\ f.calendar_link.t \in {"str", "null"}

\* ---- RequestType (02-routing.py)
\* Literal["new_event", "modify_event", "other"]
RequestLabels == {"new_event", "modify_event", "other"}
\* what the model may write as request_type: a label of the enumeration, or
\* a string outside it
WrittenLabels == RequestLabels \cup {"delete_event"}
RTFields ==
    [description : RawText,
     request_type : {JEnum(l) : l \in WrittenLabels} \cup {JMissing},
     confidence_score : RawConf]
RTDefault ==
    [description |-> JMissing, request_type |-> JMissing, confidence_score |-> JMissing]
RTResponses == Responses(RTFields, RTDefault)

\* a schema whose request_type is a plain str
RequestTypeOkAnyLabel(f) ==
    /\ f.description.t = "str"
    /\ f.request_type.t = "enum"
    /\ ConfFieldOk(f.confidence_score)

RequestTypeOk(f) ==
    /\ f.description.t = "str"
    /\ f.request_type.t = "enum" /\ f.request_type.e \in RequestLabels
    /\ ConfFieldOk(f.confidence_score)

\* RequestType(json.loads(response) as keywords)
RequestType(f) ==
    [valid |-> TRUE, description |-> f.description.s, request_type |-> f.request_type.e,
     confidence_score |-> f.confidence_score.n]

\* ---- NewEventDetails (02-routing.py)
NEFields == EDFields
NEResponses == Responses(NEFields, EDDefault)
NewEventDetailsOk(f) == EventDetailsOk(f)

\* ---- ModifyEventDetails (02-routing.py)
Changes == {<<"changes", 1>>}
MEFields ==
    [description : {JStr(x) : x \in Changes} \cup {JMissing},
     updated_date : {JStr(x) : x \in EventDates} \cup {JMissing},
     participants_to_add : {JList, JMissing},
     participants_to_remove : {JList, JNum(1)}]
MEDefault ==
    [description |-> JMissing, updated_date |-> JMissing,
     participants_to_add |-> JMissing, participants_to_remove |-> JMissing]
MEResponses == Responses(MEFields, MEDefault)

ModifyEventDetailsOk(f) ==
    /\ f.description.t = "str"
    /\ f.updated_date.t = "str"
    /\ f.participants_to_add.t = "list"
    /\ f.participants_to_remove.t = "list"

\* ---- CalenderValidation (03-parallization.py)
CVFields == [is_calender_request : RawBool, confidence_score : RawConf]
CVDefault == [is_calender_request |-> JMissing, confidence_score |-> JMissing]
CVResponses == Responses(CVFields, CVDefault)

CalenderValidationOk(f) ==
    /\ f.is_calender_request.t = "bool"
    /\ ConfFieldOk(f.confidence_score)

\* ---- SecurityChecks (03-parallization.py)
SCFields == [is_safe : RawBool, risk_flags : {JList, JMissing}]
SCDefault == [is_safe |-> JMissing, risk_flags |-> JMissing]
SCResponses == Responses(SCFields, SCDefault)

SecurityChecksOk(f) ==
    /\ f.is_safe.t = "bool"
    /\ f.risk_flags.t = "list"

(***************************************************************************)
(* Return values of the orchestration functions.                           *)
(***************************************************************************)
Unset == [kind |-> "unset", message |-> NoText, link |-> NoText,
          success |-> FALSE, first |-> FALSE, second |-> FALSE]
None == [Unset EXCEPT !.kind = "None"]

\* EventConfirmation(json.loads(response) as keywords)
EventConfirmation(f) ==
    [Unset EXCEPT !.kind = "EventConfirmation",
                  !.message = f.confirmation_message.s,
                  !.link = f.calendar_link.s]

\* a handler that reports its confirmation as unsuccessful
NewEventConfirmationUnsuccessful(f) ==
    [Unset EXCEPT !.kind = "ModifyConfirmation", !.success = FALSE,
                  !.message = <<"New event created called", f.name.s[2]>>]

\* ModifyConfirmation(success=True, message=f"New event created called: ...")
NewEventConfirmation(f) ==
    [Unset EXCEPT !.kind = "ModifyConfirmation", !.success = TRUE,
                  !.message = <<"New event created called", f.name.s[2]>>]

\* ModifyConfirmation(success=True, message=f"Event modified with description: ...")
ModifyEventConfirmation(f) ==
    [Unset EXCEPT !.kind = "ModifyConfirmation", !.success = TRUE,
                  !.message = <<"Event modified with description", f.description.s[2]>>]

(***************************************************************************)
(* One Pattern Step: try: create(...) except: log, raise; content None ->  *)
(* ValueError; json.loads; construction of the schema's instance.         *)
(***************************************************************************)
\* a step whose except clause logs the transport error and goes on
StepErrorSwallowsTransport(resp, ok) ==
    CASE resp.kind = "no_content"      -> "ValueError"
      [] resp.kind = "not_json"        -> "JSONDecodeError"
      [] resp.kind = "object" /\ ~ok   -> "ValidationError"
      [] OTHER                         -> "none"

\* a step without the check of message.content
StepErrorContentUnchecked(resp, ok) ==
    CASE resp.kind = "transport_error" -> "TransportError"
      [] resp.kind = "not_json"        -> "JSONDecodeError"
      [] resp.kind = "object" /\ ~ok   -> "ValidationError"
      [] OTHER                         -> "none"

\* a step that builds its result without validating the fields
StepErrorValidationSkipped(resp, ok) ==
    CASE resp.kind = "transport_error" -> "TransportError"
      [] resp.kind = "no_content"      -> "ValueError"
      [] resp.kind = "not_json"        -> "JSONDecodeError"
      [] OTHER                         -> "none"

StepError(resp, ok) ==
    CASE resp.kind = "transport_error" -> "TransportError"
      [] resp.kind = "no_content"      -> "ValueError"
      [] resp.kind = "not_json"        -> "JSONDecodeError"
      [] resp.kind = "object" /\ ~ok   -> "ValidationError"
      [] OTHER                         -> "none"

\* ai.chat.completions.create(...): one network call, recorded with the
\* step that issued it and the user message it carried (a text, or the
\* str() of an EventDetails)
Call(step, text, det) == [step |-> step, arg |-> text, details |-> det]

\* a client that sends every request a second time
IssuedTwice(cs, c) == Append(Append(cs, c), c)

Issued(cs, c) == Append(cs, c)

\* the answer of the Completion Client to the call of step
Answer(step, resp) == [step |-> step, resp |-> resp]

StepsOf(cs) == [i \in 1..Len(cs) |-> cs[i].step]

CountOf(cs, step) == Cardinality({i \in 1..Len(cs) : cs[i].step = step})

(***************************************************************************)
(* 03-tools.py and 04-retrieval.py: the values of the two-call protocol.   *)
(***************************************************************************)
\* the most tool calls the model puts into one message
MaxToolCalls == 2

\* get_weather(latitude, longitude) / get_knowledge(question)
LocalFunction(s) == IF s = "tools" THEN "get_weather" ELSE "get_knowledge"

\* the function names the model may write into a tool call
ToolNames == {"get_weather", "get_knowledge"}

\* tool_call.function.arguments: a JSON object with the keys the script
\* reads, text that is not JSON, or an object without those keys
ToolArguments == {"ok", "not_json", "missing_key"}

NoToolCall == [id |-> 0, name |-> "-", arguments |-> "-"]

\* message.tool_calls when it is a list: the i-th tool call has id i
ToolCallLists ==
    {<<>>} \cup
    UNION {{[i \in 1..n |-> [id |-> i, name |-> f[i][1], arguments |-> f[i][2]]] :
               f \in [1..n -> ToolNames \X ToolArguments]} : n \in 1..MaxToolCalls}

\* the answers to first_request: create() raises, or returns a message
\* whose tool_calls is None or a list
FirstResponses ==
    {[kind |-> "transport_error", present |-> FALSE, tool_calls |-> <<>>],
     [kind |-> "message", present |-> FALSE, tool_calls |-> <<>>]}
        \cup {[kind |-> "message", present |-> TRUE, tool_calls |-> l] : l \in ToolCallLists}

\* what the local function returns: weather_data / knowledge_data
LocalData == {<<"data", 1>>, <<"data", 2>>}
NoData == <<"none", 0>>

\* json.dumps(weather_data)
Dumps(d) == <<"json", d[2]>>

\* ---- Weather (03-tools.py)
WFields ==
    [temperature : {JNum(215), JNumStr(215), JMissing, JList},
     response : {JStr(<<"response", 1>>), JMissing}]
WDefault == [temperature |-> JMissing, response |-> JMissing]
WeatherOk(f) == FloatFieldOk(f.temperature) /\ f.response.t = "str"

\* Weather(json.loads(response) as keywords)
Weather(f) == [valid |-> TRUE, temperature |-> f.temperature.n, response |-> f.response.s]

\* ---- Knowledge (04-retrieval.py)
KFields ==
    [answer : {JStr(<<"answer", 1>>), JMissing},
     source : {JStr(<<"source", 1>>), JNum(1), JMissing, JList}]
KDefault == [answer |-> JMissing, source |-> JMissing]
\* source: str | int
KnowledgeOk(f) == f.answer.t = "str" /\ f.source.t \in {"str", "num"}

\* Knowledge(json.loads(response) as keywords)
Knowledge(f) == [valid |-> TRUE, answer |-> f.answer.s, source |-> f.source]

SecondResponses(s) ==
    IF s = "tools" THEN Responses(WFields, WDefault) ELSE Responses(KFields, KDefault)

ResponseModelOk(s, f) == IF s = "tools" THEN WeatherOk(f) ELSE KnowledgeOk(f)

ResponseModel(s, f) == IF s = "tools" THEN Weather(f) ELSE Knowledge(f)

NoResponseModel == [valid |-> FALSE]

\* one message of a request
Message(role, content, id, tcs) ==
    [role |-> role, content |-> content, tool_call_id |-> id, tool_calls |-> tcs]

\* the system message of first_request, and that of second_request, which
\* adds the schema to answer in
SystemPrompt == <<"system_prompt", 1>>
SystemPromptWithSchema == <<"system_prompt", 2>>

\* the messages of first_request
FirstMessages(input) ==
    <<Message("system", SystemPrompt, 0, <<>>), Message("user", input, 0, <<>>)>>

\* a second request whose tool message answers the last tool call
SecondMessagesAnswersLast(input, tcs, tc, data) ==
    <<Message("system", SystemPromptWithSchema, 0, <<>>), Message("user", input, 0, <<>>),
      Message("assistant", NoText, 0, tcs), Message("tool", Dumps(data), tcs[Len(tcs)].id, <<>>)>>

\* the messages of second_request: system, user, the assistant message the
\* first call returned, and the tool message answering tool_call
SecondMessages(input, tcs, tc, data) ==
    <<Message("system", SystemPromptWithSchema, 0, <<>>), Message("user", input, 0, <<>>),
      Message("assistant", NoText, 0, tcs), Message("tool", Dumps(data), tc.id, <<>>)>>

\* the locals of a tool script before first_request
NoTool ==
    [present |-> FALSE, tool_calls |-> <<>>, tool_call |-> NoToolCall, local |-> <<>>,
     data |-> NoData, messages |-> <<>>, response_model |-> NoResponseModel,
     trace |-> <<>>]

\* the parser has built nothing
NoParsed == [valid |-> FALSE]

\* print_box has not been called
NoBox == [width |-> 0, lines |-> <<>>, todo |-> <<>>, line |-> <<>>, index |-> 0, rows |-> <<>>]

(***************************************************************************)
(* Initial state: a script has been started and has run no scenario yet.   *)
(***************************************************************************)
Tasks == {"validate_description", "security_checks"}

NoClassification ==
    [valid |-> FALSE, description |-> NoText, request_type |-> "-", confidence_score |-> 0]

NoTaskResult ==
    [valid |-> FALSE, is_calender_request |-> FALSE, confidence_score |-> 0,
     is_safe |-> FALSE]

Init ==
    /\ script \in Scripts
    /\ scenario = 1
    /\ pc = "idle"
    /\ user_input = NoText
    /\ calls = <<>>
    /\ received = <<>>
    /\ result = NoValidation
    /\ details = NoDetails
    /\ classification = NoClassification
    /\ outcome = "none"
    /\ error = "none"
    /\ ret = Unset
    /\ task = [t \in Tasks |-> "none"]
    /\ taskResult = [t \in Tasks |-> NoTaskResult]
    /\ taskError = [t \in Tasks |-> "none"]
    /\ doneq = <<>>
    /\ nfinished = 0
    /\ outer = "none"
    /\ outerError = "none"
    /\ loop = IF script = "fanout" THEN "running" ELSE "none"
    /\ printed = <<>>
    /\ tool = NoTool
    /\ parsed = NoParsed
    /\ box = NoBox

fanoutVars == <<task, taskResult, taskError, doneq, nfinished, outer, outerError, loop>>
chainVars == <<result, details>>

\* the orchestration function ends: return r, or raise e
Ends(o, e, r) ==
    /\ pc' = "done"
    /\ outcome' = o
    /\ error' = e
    /\ ret' = r

Continues(step) ==
    /\ pc' = step
    /\ UNCHANGED <<outcome, error, ret>>

(***************************************************************************)
(* 01-Prompt-Chaining.py: process_calender_request                         *)
(***************************************************************************)
\* a chain that hands the caller's text to every step
ExtractInputRaw(input, r) == input

\* extract_event(result.description): the rephrased description
ExtractInput(input, r) == r.description

\* a gate that turns the boundary value away
ChainRejectsAtThreshold(r) == ~r.is_event \/ r.confidence_score <= ChainThreshold

\* the gate: not result.is_event or result.confidence_score < 0.7
ChainRejects(r) == ~r.is_event \/ r.confidence_score < ChainThreshold

\* process_calender_request(user_input_n) is called and runs up to the
\* Completion Client call of validate_event_description
ChainInvoke ==
    /\ script = "chain"
    /\ pc = "idle"
    /\ scenario <= NumScenarios(script)
    /\ user_input' = UserInput(scenario)
    /\ calls' = Issued(<<>>, Call("validate_event_description", user_input', NoDetails))
    /\ received' = <<>>
    /\ Continues("validate_event_description")
    /\ UNCHANGED <<script, box, tool, parsed, scenario, result, details, classification, fanoutVars, printed>>

\* the validation call returns or raises; on a typed result the gate is
\* applied and either None is returned or extract_event issues its call
ChainValidateReturns ==
    /\ script = "chain"
    /\ pc = "validate_event_description"
    /\ \E resp \in EVResponses :
         /\ received' = Append(received, Answer(pc, resp))
         /\ LET err == StepError(resp, EventValidationOk(resp.fields)) IN
            IF err # "none"
            THEN /\ Ends("Failure", err, Unset)
                 /\ UNCHANGED <<result, calls>>
            ELSE LET r == EventValidation(resp.fields) IN
                 /\ result' = r
                 /\ IF ChainRejects(r)
                    THEN /\ Ends("Rejected", "none", None)
                         /\ UNCHANGED calls
                    ELSE /\ calls' = Issued(calls, Call("extract_event", ExtractInput(user_input, r),
                                                      NoDetails))
                         /\ Continues("extract_event")
    /\ UNCHANGED <<script, box, tool, parsed, scenario, user_input, details, classification, fanoutVars, printed>>

\* the extraction call returns or raises; on a typed result
\* generate_confirmation issues its call with str(event_details)
ChainExtractReturns ==
    /\ script = "chain"
    /\ pc = "extract_event"
    /\ \E resp \in EDResponses :
         /\ received' = Append(received, Answer(pc, resp))
         /\ LET err == StepError(resp, EventDetailsOk(resp.fields)) IN
            IF err # "none"
            THEN /\ Ends("Failure", err, Unset)
                 /\ UNCHANGED <<details, calls>>
            ELSE LET d == EventDetails(resp.fields) IN
                 /\ details' = d
                 /\ calls' = Issued(calls, Call("generate_confirmation", NoText, d))
                 /\ Continues("generate_confirmation")
    /\ UNCHANGED <<script, box, tool, parsed, scenario, user_input, result, classification, fanoutVars, printed>>

\* the confirmation call returns or raises; on a typed result the
\* orchestrator returns it
ChainConfirmReturns ==
    /\ script = "chain"
    /\ pc = "generate_confirmation"
    /\ \E resp \in ECResponses :
         /\ received' = Append(received, Answer(pc, resp))
         /\ LET err == StepError(resp, EventConfirmationOk(resp.fields)) IN
            IF err # "none"
            THEN Ends("Failure", err, Unset)
            ELSE Ends("Proceed", "none", EventConfirmation(resp.fields))
    /\ UNCHANGED <<script, box, tool, parsed, scenario, user_input, calls, result, details, classification,
                   fanoutVars, printed>>

(***************************************************************************)
(* 02-routing.py: process_calendar_request                                 *)
(***************************************************************************)
\* a router that hands the caller's text to the handler
HandlerInputRaw(input, c) == input

\* handle_new_event(classification.description): the rephrased description
HandlerInput(input, c) == c.description

\* a router that looks at the label first and at the confidence only when
\* no handler matches
RouterRouteLabelFirst(c) ==
    IF c.request_type = "new_event" THEN "handle_new_event"
    ELSE IF c.request_type = "modify_event" THEN "handle_modify_event"
    ELSE "reject"

\* a router whose branches call each other's handler
RouterRouteSwapped(c) ==
    IF c.confidence_score < RouterThreshold THEN "reject"
    ELSE IF c.request_type = "new_event" THEN "handle_modify_event"
    ELSE IF c.request_type = "modify_event" THEN "handle_new_event"
    ELSE "reject"

\* the confidence check, then the dispatch on request_type: the name of the
\* handler to call, or "reject" for return None
RouterRoute(c) ==
    IF c.confidence_score < RouterThreshold THEN "reject"
    ELSE IF c.request_type = "new_event" THEN "handle_new_event"
    ELSE IF c.request_type = "modify_event" THEN "handle_modify_event"
    ELSE "reject"

\* process_calendar_request(input_n) is called and runs up to the
\* Completion Client call of clasify_request
RouterInvoke ==
    /\ script = "router"
    /\ pc = "idle"
    /\ scenario <= NumScenarios(script)
    /\ user_input' = UserInput(scenario)
    /\ calls' = Issued(<<>>, Call("clasify_request", user_input', NoDetails))
    /\ received' = <<>>
    /\ Continues("clasify_request")
    /\ UNCHANGED <<script, box, tool, parsed, scenario, chainVars, classification, fanoutVars, printed>>

\* the classification call returns or raises; on a typed result the router
\* returns None or the chosen handler issues its call
RouterClassifyReturns ==
    /\ script = "router"
    /\ pc = "clasify_request"
    /\ \E resp \in RTResponses :
         /\ received' = Append(received, Answer(pc, resp))
         /\ LET err == StepError(resp, RequestTypeOk(resp.fields)) IN
            IF err # "none"
            THEN /\ Ends("Failure", err, Unset)
                 /\ UNCHANGED <<classification, calls>>
            ELSE LET c == RequestType(resp.fields)
                     to == RouterRoute(c) IN
                 /\ classification' = c
                 /\ IF to = "reject"
                    THEN /\ Ends("Rejected", "none", None)
                         /\ UNCHANGED calls
                    ELSE /\ calls' = Issued(calls, Call(to, HandlerInput(user_input, c), NoDetails))
                         /\ Continues(to)
    /\ UNCHANGED <<script, box, tool, parsed, scenario, user_input, chainVars, fanoutVars, printed>>

\* the call of handle_new_event returns or raises
RouterNewEventReturns ==
    /\ script = "router"
    /\ pc = "handle_new_event"
    /\ \E resp \in NEResponses :
         /\ received' = Append(received, Answer(pc, resp))
         /\ LET err == StepError(resp, NewEventDetailsOk(resp.fields)) IN
            IF err # "none"
            THEN Ends("Failure", err, Unset)
            ELSE Ends("Proceed", "none", NewEventConfirmation(resp.fields))
    /\ UNCHANGED <<script, box, tool, parsed, scenario, user_input, calls, chainVars, classification,
                   fanoutVars, printed>>

\* the call of handle_modify_event returns or raises
RouterModifyEventReturns ==
    /\ script = "router"
    /\ pc = "handle_modify_event"
    /\ \E resp \in MEResponses :
         /\ received' = Append(received, Answer(pc, resp))
         /\ LET err == StepError(resp, ModifyEventDetailsOk(resp.fields)) IN
            IF err # "none"
            THEN Ends("Failure", err, Unset)
            ELSE Ends("Proceed", "none", ModifyEventConfirmation(resp.fields))
    /\ UNCHANGED <<script, box, tool, parsed, scenario, user_input, calls, chainVars, classification,
                   fanoutVars, printed>>

(***************************************************************************)
(* 03-parallization.py: process_validation                                 *)
(* asyncio.gather wraps the two coroutines in tasks and returns a future   *)
(* (outer).  The loop runs the tasks; when a task finishes, gather's       *)
(* callback for it is queued.  The callback of a failed task sets the      *)
(* task's exception on outer at once and leaves the other tasks alone; the *)
(* callback of the last of all tasks to succeed sets outer's result.       *)
(***************************************************************************)
NumTasks == Cardinality(Tasks)

\* results[0].is_calender_request and results[0].confidence_score > 0.7
Relevant(r) == r.is_calender_request /\ r.confidence_score > FanoutThreshold

\* a join that is satisfied by the first task to succeed
GatherOnDoneFirstCompleted(failed, o, n) ==
    IF o # "pending" THEN [outer |-> o, nfinished |-> n]
    ELSE IF failed THEN [outer |-> "exception", nfinished |-> n]
    ELSE [outer |-> "result", nfinished |-> n + 1]

\* a join that counts a failed task as a finished one
GatherOnDoneKeepsExceptions(failed, o, n) ==
    IF o # "pending" THEN [outer |-> o, nfinished |-> n]
    ELSE IF n + 1 = NumTasks THEN [outer |-> "result", nfinished |-> n + 1]
    ELSE [outer |-> "pending", nfinished |-> n + 1]

\* a join that takes no notice of a failed task
GatherOnDoneDropsFailure(failed, o, n) ==
    IF o # "pending" THEN [outer |-> o, nfinished |-> n]
    ELSE IF failed THEN [outer |-> "pending", nfinished |-> n]
    ELSE IF n + 1 = NumTasks THEN [outer |-> "result", nfinished |-> n + 1]
    ELSE [outer |-> "pending", nfinished |-> n + 1]

\* gather's callback for one finished task, on (outer, nfinished)
GatherOnDone(failed, o, n) ==
    IF o # "pending" THEN [outer |-> o, nfinished |-> n]
    ELSE IF failed THEN [outer |-> "exception", nfinished |-> n]
    ELSE IF n + 1 = NumTasks THEN [outer |-> "result", nfinished |-> n + 1]
    ELSE [outer |-> "pending", nfinished |-> n + 1]

\* a join that cancels the children still running when one has failed
GatherOnFailureCancels(tk) ==
    [t \in DOMAIN tk |-> IF tk[t] = "inflight" THEN "cancelled" ELSE tk[t]]

\* what gather does to the children when one of them has failed: nothing
GatherOnFailure(tk) == tk

\* process_validation(description) is called: gather creates both tasks and
\* the coroutine awaits outer
FanoutInvoke ==
    /\ script = "fanout"
    /\ pc = "idle"
    /\ loop = "running"
    /\ scenario <= NumScenarios(script)
    /\ user_input' = UserInput(scenario)
    /\ calls' = <<>>
    /\ received' = <<>>
    /\ task' = [t \in Tasks |-> "created"]
    /\ taskResult' = [t \in Tasks |-> NoTaskResult]
    /\ taskError' = [t \in Tasks |-> "none"]
    /\ doneq' = <<>>
    /\ nfinished' = 0
    /\ outer' = "pending"
    /\ outerError' = "none"
    /\ Continues("gather")
    /\ UNCHANGED <<script, box, tool, parsed, scenario, chainVars, classification, loop, printed>>

\* the loop runs a task up to its Completion Client call; the tasks start
\* in the order gather was given them
TaskStart(t) ==
    /\ script = "fanout"
    /\ loop = "running"
    /\ task[t] = "created"
    /\ t = "security_checks" => task["validate_description"] # "created"
    /\ task' = [task EXCEPT ![t] = "inflight"]
    /\ calls' = Issued(calls, Call(t, user_input, NoDetails))
    /\ UNCHANGED <<script, box, tool, parsed, scenario, pc, user_input, received, chainVars, classification, outcome,
                   error, ret, taskResult, taskError, doneq, nfinished, outer, outerError,
                   loop, printed>>

TaskResponses(t) == IF t = "validate_description" THEN CVResponses ELSE SCResponses

TaskParses(t, f) ==
    IF t = "validate_description" THEN CalenderValidationOk(f) ELSE SecurityChecksOk(f)

\* CalenderValidation(...) or SecurityChecks(...)
TaskTyped(t, f) ==
    IF t = "validate_description"
    THEN [NoTaskResult EXCEPT !.valid = TRUE,
                              !.is_calender_request = f.is_calender_request.b,
                              !.confidence_score = f.confidence_score.n]
    ELSE [NoTaskResult EXCEPT !.valid = TRUE, !.is_safe = f.is_safe.b]

\* a task's call returns or raises: the task ends with a typed result or
\* with an exception, and gather's callback for it is queued.  Both tasks
\* have their first run in the loop iteration that follows gather, before
\* the loop polls for any answer
TaskReturns(t) ==
    /\ script = "fanout"
    /\ loop = "running"
    /\ task[t] = "inflight"
    /\ \A u \in Tasks : task[u] # "created"
    /\ \E resp \in TaskResponses(t) :
         /\ received' = Append(received, Answer(t, resp))
         /\ LET err == StepError(resp, TaskParses(t, resp.fields)) IN
            IF err # "none"
            THEN /\ task' = [task EXCEPT ![t] = "failed"]
                 /\ taskError' = [taskError EXCEPT ![t] = err]
                 /\ UNCHANGED taskResult
            ELSE /\ task' = [task EXCEPT ![t] = "succeeded"]
                 /\ taskResult' = [taskResult EXCEPT ![t] = TaskTyped(t, resp.fields)]
                 /\ UNCHANGED taskError
    /\ doneq' = Append(doneq, t)
    /\ UNCHANGED <<script, box, tool, parsed, scenario, pc, user_input, calls, chainVars, classification,
                   outcome, error, ret, nfinished, outer, outerError, loop, printed>>

\* the loop runs gather's callback for the task that finished first among
\* those not yet seen; every task has had its first run by then
GatherCallback ==
    /\ script = "fanout"
    /\ loop = "running"
    /\ doneq # <<>>
    /\ \A t \in Tasks : task[t] # "created"
    /\ LET t == Head(doneq)
           g == GatherOnDone(task[t] = "failed", outer, nfinished) IN
       /\ outer' = g.outer
       /\ nfinished' = g.nfinished
       /\ IF outer = "pending" /\ g.outer = "exception"
          THEN /\ outerError' = taskError[t]
               /\ task' = GatherOnFailure(task)
          ELSE UNCHANGED <<outerError, task>>
    /\ doneq' = Tail(doneq)
    /\ UNCHANGED <<script, box, tool, parsed, scenario, pc, user_input, calls, received, chainVars,
                   classification, outcome, error, ret, taskResult, taskError, loop, printed>>

\* a join that hands the results over in the order of completion
ResultsInCompletionOrder(tr, rcv) == <<tr[rcv[1].step], tr[rcv[2].step]>>

\* results: gather's result list is in the order of its arguments
ResultsOf(tr, rcv) == <<tr["validate_description"], tr["security_checks"]>>

\* a return statement that reduces the two components to one decision
PairReduced(x, y) == [Unset EXCEPT !.kind = "pair", !.first = x /\ y, !.second = x /\ y]

\* a return statement whose safety component also asks for relevance
PairSafeIfRelevant(x, y) == [Unset EXCEPT !.kind = "pair", !.first = x, !.second = x /\ y]

\* the tuple process_validation returns
Pair(x, y) == [Unset EXCEPT !.kind = "pair", !.first = x, !.second = y]

\* outer is done and process_validation resumes: it raises outer's
\* exception, or builds the pair from outer's result
FanoutResume ==
    /\ script = "fanout"
    /\ loop = "running"
    /\ pc = "gather"
    /\ outer \in {"result", "exception"}
    /\ IF outer = "exception"
       THEN Ends("Failure", outerError, Unset)
       ELSE Ends("Proceed", "none",
                 LET results == ResultsOf(taskResult, received) IN
                 Pair(Relevant(results[1]), results[2].is_safe))
    /\ UNCHANGED <<script, box, tool, parsed, scenario, user_input, calls, received, chainVars, classification,
                   fanoutVars, printed>>

(***************************************************************************)
(* 03-tools.py and 04-retrieval.py: module-level code, run once.           *)
(***************************************************************************)
patternVars == <<result, details, classification, fanoutVars>>

\* a script that takes an empty tool_calls list as a call of its function
ToolCallErrorLenient(resp) == IF ~resp.present THEN "AssertionError" ELSE "none"

\* assert tool_calls is not None; tool_call = tool_calls[0]
ToolCallError(resp) ==
    IF ~resp.present THEN "AssertionError"
    ELSE IF Len(resp.tool_calls) = 0 THEN "IndexError"
    ELSE "none"

\* the tool call the script reads
ToolCallOf(tcs) == IF Len(tcs) = 0 THEN NoToolCall ELSE tcs[1]

\* args = json.loads(tool_call.function.arguments); args["latitude"] ...
ArgumentsError(tc) ==
    CASE tc.arguments = "not_json"    -> "JSONDecodeError"
      [] tc.arguments = "missing_key" -> "KeyError"
      [] OTHER                        -> "none"

\* create() raising, then the checks between first_request and the call
\* of the local function
FirstRequestError(resp) ==
    IF resp.kind = "transport_error" THEN "TransportError"
    ELSE IF ToolCallError(resp) # "none" THEN ToolCallError(resp)
    ELSE ArgumentsError(ToolCallOf(resp.tool_calls))

\* a script that runs its function for every tool call of the message
AnsweredAll(tcs) == tcs

\* the tool calls the script runs its function for: tool_calls[0]
Answered(tcs) == <<ToolCallOf(tcs)>>

\* one call of the local function, made for tool call tc: the function is
\* the one the script names, whatever tc.function.name says
LocalCall(s, tc) == [function |-> LocalFunction(s), tool_call_id |-> tc.id, name |-> tc.name]

LocalCalls(s, tcs) == [i \in 1..Len(Answered(tcs)) |-> LocalCall(s, Answered(tcs)[i])]

\* the failure paths after second_request: create() raising, the assert on
\* message.content, json.loads, the schema
ToolStepError(resp, ok) ==
    CASE resp.kind = "transport_error" -> "TransportError"
      [] resp.kind = "no_content"      -> "AssertionError"
      [] resp.kind = "not_json"        -> "JSONDecodeError"
      [] resp.kind = "object" /\ ~ok   -> "ValidationError"
      [] OTHER                         -> "none"

\* the script starts and runs up to first_request, the call that declares
\* the tools
ToolInvoke ==
    /\ script \in ToolScripts
    /\ pc = "idle"
    /\ user_input' = UserInput(scenario)
    /\ calls' = Issued(<<>>, Call("first_request", user_input', NoDetails))
    /\ received' = <<>>
    /\ tool' = [NoTool EXCEPT !.messages = FirstMessages(user_input'),
                              !.trace = <<"first_request">>]
    /\ Continues("first_request")
    /\ UNCHANGED <<script, box, scenario, patternVars, printed, parsed>>

\* first_request returns or raises; with a tool call whose arguments can be
\* read, the script calls its local function
ToolFirstReturns ==
    /\ script \in ToolScripts
    /\ pc = "first_request"
    /\ \E resp \in FirstResponses :
         /\ received' = Append(received, Answer(pc, resp))
         /\ LET err == FirstRequestError(resp) IN
            IF err # "none"
            THEN /\ Ends("Failure", err, Unset)
                 /\ tool' = [tool EXCEPT !.present = resp.present,
                                         !.tool_calls = resp.tool_calls,
                                         !.trace = Append(@, "first_returned")]
            ELSE /\ tool' = [tool EXCEPT !.present = resp.present,
                                         !.tool_calls = resp.tool_calls,
                                         !.tool_call = ToolCallOf(resp.tool_calls),
                                         !.local = LocalCalls(script, resp.tool_calls),
                                         !.trace = Append(@, "first_returned") \o
                                            [i \in 1..Len(LocalCalls(script, resp.tool_calls))
                                                |-> "local_call"]]
                 /\ Continues("local")
    /\ UNCHANGED <<script, box, scenario, user_input, calls, patternVars, printed, parsed>>

\* the local function returns its data or raises (the weather service or
\* the knowledge file cannot be read); with the data the script issues
\* second_request
ToolLocalReturns ==
    /\ script \in ToolScripts
    /\ pc = "local"
    /\ \/ /\ Ends("Failure", "LocalError", Unset)
          /\ UNCHANGED <<tool, calls>>
       \/ \E data \in LocalData :
          /\ tool' = [tool EXCEPT !.data = data,
                                  !.messages = SecondMessages(user_input, tool.tool_calls,
                                                              tool.tool_call, data),
                                  !.trace = @ \o <<"local_returned", "second_request">>]
          /\ calls' = Issued(calls, Call("second_request", user_input, NoDetails))
          /\ Continues("second_request")
    /\ UNCHANGED <<script, box, scenario, user_input, received, patternVars, printed, parsed>>

\* second_request returns or raises; its content is parsed into the
\* script's schema and the fields are printed
ToolSecondReturns ==
    /\ script \in ToolScripts
    /\ pc = "second_request"
    /\ \E resp \in SecondResponses(script) :
         /\ received' = Append(received, Answer(pc, resp))
         /\ LET err == ToolStepError(resp, ResponseModelOk(script, resp.fields)) IN
            IF err # "none"
            THEN /\ Ends("Failure", err, Unset)
                 /\ tool' = [tool EXCEPT !.trace = Append(@, "second_returned")]
                 /\ UNCHANGED printed
            ELSE /\ Ends("Proceed", "none", Unset)
                 /\ tool' = [tool EXCEPT !.response_model = ResponseModel(script, resp.fields),
                                         !.trace = @ \o <<"second_returned", "parsed">>]
                 /\ printed' = Append(printed, [title |-> IF script = "tools" THEN "Weather"
                                                                              ELSE "Knowledge",
                                                scenario |-> scenario, line |-> TRUE])
    /\ UNCHANGED <<script, box, scenario, user_input, calls, patternVars, parsed>>

\* the last statement of the script has run
ToolExit ==
    /\ script \in ToolScripts
    /\ pc = "done"
    /\ outcome = "Proceed"
    /\ pc' = "exited"
    /\ UNCHANGED <<script, box, scenario, user_input, calls, received, outcome, error, ret,
                   patternVars, printed, tool, parsed>>

(***************************************************************************)
(* Script level: the code after each call of the orchestration function.   *)
(***************************************************************************)
Box(title) == [title |-> title, scenario |-> scenario, line |-> FALSE]

\* an orchestration that keeps its last validation and classification in
\* module-level variables
ForgetsKeepsResults ==
    /\ user_input' = NoText
    /\ calls' = <<>>
    /\ received' = <<>>
    /\ details' = NoDetails
    /\ outcome' = "none"
    /\ error' = "none"
    /\ ret' = Unset
    /\ UNCHANGED <<result, classification>>

\* the locals of the finished invocation are gone
Forgets ==
    /\ user_input' = NoText
    /\ calls' = <<>>
    /\ received' = <<>>
    /\ result' = NoValidation
    /\ details' = NoDetails
    /\ classification' = NoClassification
    /\ outcome' = "none"
    /\ error' = "none"
    /\ ret' = Unset

\* if result: print_box(scheduled) else: print_box(failed); then the next test
ChainReport ==
    /\ script = "chain"
    /\ pc = "done"
    /\ outcome \in {"Proceed", "Rejected"}
    /\ printed' = Append(printed,
                         Box(IF ret.kind # "None" THEN "EVENT SCHEDULED SUCCESSFULLY"
                                                  ELSE "EVENT SCHEDULING FAILED"))
    /\ scenario' = scenario + 1
    /\ pc' = "idle"
    /\ Forgets
    /\ UNCHANGED <<script, box, tool, parsed, fanoutVars>>

\* the titles of the boxes of TEST #1, #2, #3
RouterTitle(n, ok) ==
    CASE n = 1 -> IF ok THEN "EVENT CREATED SUCCESSFULLY" ELSE "EVENT CREATION FAILED"
      [] n = 2 -> IF ok THEN "EVENT MODIFIED SUCCESSFULLY" ELSE "EVENT MODIFICATION FAILED"
      [] OTHER -> IF ok THEN "REQUEST PROCESSED SUCCESSFULLY"
                        ELSE "REQUEST PROCESSING FAILED"

\* if result: print_box(test n succeeded) else: print_box(test n failed)
RouterReport ==
    /\ script = "router"
    /\ pc = "done"
    /\ outcome \in {"Proceed", "Rejected"}
    /\ printed' = Append(printed, Box(RouterTitle(scenario, ret.kind # "None")))
    /\ scenario' = scenario + 1
    /\ pc' = "idle"
    /\ Forgets
    /\ UNCHANGED <<script, box, tool, parsed, fanoutVars>>

\* run_valid_example / run_malicious_example: if results[1]: print_box(safe)
\* else: print_box(not safe)
FanoutReport ==
    /\ script = "fanout"
    /\ loop = "running"
    /\ pc = "done"
    /\ outcome = "Proceed"
    /\ printed' = Append(printed,
                         [title |-> IF ret.second THEN "The input is safe."
                                                  ELSE "The input is not safe.",
                          scenario |-> scenario,
                          line |-> ret.first])
    /\ scenario' = scenario + 1
    /\ pc' = "idle"
    /\ Forgets
    /\ task' = [t \in Tasks |-> "none"]
    /\ taskResult' = [t \in Tasks |-> NoTaskResult]
    /\ taskError' = [t \in Tasks |-> "none"]
    /\ doneq' = <<>>
    /\ nfinished' = 0
    /\ outer' = "none"
    /\ outerError' = "none"
    /\ UNCHANGED <<script, box, tool, parsed, loop>>

\* the exception leaves main(): asyncio.run cancels the tasks that are not
\* done and closes the loop
FanoutTeardown ==
    /\ script = "fanout"
    /\ loop = "running"
    /\ pc = "done"
    /\ outcome = "Failure"
    /\ task' = [t \in Tasks |-> IF task[t] = "inflight" THEN "cancelled" ELSE task[t]]
    /\ loop' = "closed"
    /\ pc' = "exited"
    /\ UNCHANGED <<script, box, tool, parsed, scenario, user_input, calls, received, chainVars, classification,
                   outcome, error, ret, taskResult, taskError, doneq, nfinished, outer,
                   outerError, printed>>

\* a script that catches the error of a scenario, reports it as a failed
\* scenario and goes on with the next
ScriptAbortCaught ==
    /\ script \in {"chain", "router"}
    /\ pc = "done"
    /\ outcome = "Failure"
    /\ printed' = Append(printed, Box("ERROR"))
    /\ scenario' = scenario + 1
    /\ pc' = "idle"
    /\ Forgets
    /\ UNCHANGED <<script, box, tool, parsed, fanoutVars>>

\* an exception reaches the top level of a synchronous script: traceback, exit
ScriptAbort ==
    /\ script \in {"chain", "router"} \cup ToolScripts
    /\ pc = "done"
    /\ outcome = "Failure"
    /\ pc' = "exited"
    /\ UNCHANGED <<script, box, tool, parsed, scenario, user_input, calls, received, result, details,
                   classification, outcome, error, ret, fanoutVars, printed>>

\* the last scenario has been reported: the script ends
ScriptExit ==
    /\ script \in PatternScripts
    /\ pc = "idle"
    /\ scenario > NumScenarios(script)
    /\ pc' = "exited"
    /\ loop' = IF script = "fanout" THEN "closed" ELSE loop
    /\ UNCHANGED <<script, box, tool, parsed, scenario, user_input, calls, received, result, details,
                   classification, outcome, error, ret, task, taskResult, taskError, doneq, nfinished, outer,
                   outerError, printed>>

Next ==
    \/ ChainInvoke
    \/ ChainValidateReturns
    \/ ChainExtractReturns
    \/ ChainConfirmReturns
    \/ ChainReport
    \/ RouterInvoke
    \/ RouterClassifyReturns
    \/ RouterNewEventReturns
    \/ RouterModifyEventReturns
    \/ RouterReport
    \/ FanoutInvoke
    \/ \E t \in Tasks : TaskStart(t)
    \/ \E t \in Tasks : TaskReturns(t)
    \/ GatherCallback
    \/ FanoutResume
    \/ FanoutReport
    \/ FanoutTeardown
    \/ ToolInvoke
    \/ ToolFirstReturns
    \/ ToolLocalReturns
    \/ ToolSecondReturns
    \/ ToolExit
    \/ ScriptAbort
    \/ ScriptExit

Spec == Init /\ [][Next]_vars

(***************************************************************************)
(* The same program when every issued call is answered: the Completion     *)
(* Client answers each call in flight, and the interpreter and the event   *)
(* loop run every step that is ready.                                      *)
(***************************************************************************)
\* the answer to the call a synchronous script waits for
Answers ==
    \/ ChainValidateReturns
    \/ ChainExtractReturns
    \/ ChainConfirmReturns
    \/ RouterClassifyReturns
    \/ RouterNewEventReturns
    \/ RouterModifyEventReturns
    \/ ToolFirstReturns
    \/ ToolLocalReturns
    \/ ToolSecondReturns

\* the steps that wait for no answer
Runs ==
    \/ ChainInvoke
    \/ ChainReport
    \/ RouterInvoke
    \/ RouterReport
    \/ FanoutInvoke
    \/ \E t \in Tasks : TaskStart(t)
    \/ GatherCallback
    \/ FanoutResume
    \/ FanoutReport
    \/ FanoutTeardown
    \/ ToolInvoke
    \/ ToolExit
    \/ ScriptAbort
    \/ ScriptExit

EveryCallAnswered ==
    /\ WF_vars(Answers)
    /\ \A t \in Tasks : WF_vars(TaskReturns(t))

SpecAnswered == Init /\ [][Next]_vars /\ EveryCallAnswered /\ WF_vars(Runs)

(***************************************************************************)
(* The Typed Result Parser on its own: an instance of a schema is          *)
(* serialized to JSON text, and the text is parsed as the steps parse a    *)
(* response: json.loads, then the schema's constructor.                    *)
(***************************************************************************)
\* the values a valid instance holds in confidence_score
ValidConf == {c \in ConfValues : c >= ConfMin /\ c <= ConfMax}

\* the valid instances of EventValidation, RequestType, EventConfirmation
EventValidations ==
    {[valid |-> TRUE, description |-> d, is_event |-> b, confidence_score |-> c] :
        d \in Rephrased, b \in BOOLEAN, c \in ValidConf}
RequestTypes ==
    {[valid |-> TRUE, description |-> d, request_type |-> l, confidence_score |-> c] :
        d \in Rephrased, l \in RequestLabels, c \in ValidConf}
EventConfirmations ==
    {[Unset EXCEPT !.kind = "EventConfirmation", !.message = m, !.link = l] :
        m \in Messages, l \in Links \cup {NoText}}

\* a serializer that writes a float with one decimal place
DumpFloatOneDecimal(x) == JNum((x \div 1000) * 1000)

\* how the serializer writes a float, a bool, a str, a label, an optional str
DumpFloat(x) == JNum(x)
DumpBool(x) == JBool(x)
DumpStr(x) == JStr(x)
DumpLabel(x) == JEnum(x)
DumpOptionalStr(x) == IF x = NoText THEN JNull ELSE JStr(x)

\* the JSON object of an instance
DumpEventValidation(r) ==
    [description |-> DumpStr(r.description), is_event |-> DumpBool(r.is_event),
     confidence_score |-> DumpFloat(r.confidence_score)]
DumpRequestType(r) ==
    [description |-> DumpStr(r.description), request_type |-> DumpLabel(r.request_type),
     confidence_score |-> DumpFloat(r.confidence_score)]
DumpEventConfirmation(r) ==
    [confirmation_message |-> DumpStr(r.message), calendar_link |-> DumpOptionalStr(r.link)]

\* the instance the parser is given: the one variable that holds one
Original ==
    CASE result.valid         -> [schema |-> "EventValidation", instance |-> result]
      [] classification.valid -> [schema |-> "RequestType", instance |-> classification]
      [] OTHER                -> [schema |-> "EventConfirmation", instance |-> ret]

InitRoundTrip ==
    /\ script = "parser"
    /\ scenario = 1
    /\ pc = "instance"
    /\ user_input = NoText
    /\ calls = <<>>
    /\ received = <<>>
    /\ \/ result \in EventValidations /\ classification = NoClassification /\ ret = Unset
       \/ result = NoValidation /\ classification \in RequestTypes /\ ret = Unset
       \/ result = NoValidation /\ classification = NoClassification
            /\ ret \in EventConfirmations
    /\ details = NoDetails
    /\ outcome = "none"
    /\ error = "none"
    /\ task = [t \in Tasks |-> "none"]
    /\ taskResult = [t \in Tasks |-> NoTaskResult]
    /\ taskError = [t \in Tasks |-> "none"]
    /\ doneq = <<>>
    /\ nfinished = 0
    /\ outer = "none"
    /\ outerError = "none"
    /\ loop = "none"
    /\ printed = <<>>
    /\ tool = NoTool
    /\ parsed = NoParsed
    /\ box = NoBox

\* the instance is serialized to JSON text
Serialize ==
    /\ script = "parser"
    /\ pc = "instance"
    /\ LET o == Original
           text == CASE o.schema = "EventValidation" -> DumpEventValidation(o.instance)
                     [] o.schema = "RequestType"     -> DumpRequestType(o.instance)
                     [] OTHER                        -> DumpEventConfirmation(o.instance) IN
       received' = <<Answer(o.schema, [kind |-> "object", fields |-> text])>>
    /\ pc' = "serialized"
    /\ UNCHANGED <<script, box, scenario, user_input, calls, result, details, classification,
                   outcome, error, ret, fanoutVars, printed, tool, parsed>>

\* json.loads(text), then the schema's constructor on the fields
Parse ==
    /\ script = "parser"
    /\ pc = "serialized"
    /\ LET schema == received[1].step
           f == received[1].resp.fields
           ok == CASE schema = "EventValidation" -> EventValidationOk(f)
                   [] schema = "RequestType"     -> RequestTypeOk(f)
                   [] OTHER                      -> EventConfirmationOk(f) IN
       IF ok
       THEN /\ parsed' = (CASE schema = "EventValidation" -> EventValidation(f)
                            [] schema = "RequestType"     -> RequestType(f)
                            [] OTHER                      -> EventConfirmation(f))
            /\ pc' = "parsed"
            /\ UNCHANGED error
       ELSE /\ parsed' = NoParsed
            /\ pc' = "failed"
            /\ error' = "ValidationError"
    /\ UNCHANGED <<script, box, scenario, user_input, calls, received, result, details,
                   classification, outcome, ret, fanoutVars, printed, tool>>

NextRoundTrip ==
    \/ Serialize
    \/ Parse

SpecRoundTrip == InitRoundTrip /\ [][NextRoundTrip]_vars

(***************************************************************************)
(* format_output.py: print_box(title, lines, width) on its own.  A line is *)
(* the sequence of its characters; the character at position i is written  *)
(* i, so that a chunk shows which part of the line it holds.               *)
(***************************************************************************)
\* the widths print_box is called with, and the sizes of its lines argument
MinWidth == 3
MaxWidth == 6
MaxLineLen == 3
MaxLines == 2

Widths == MinWidth..MaxWidth

\* the line of n characters
LineOf(n) == [i \in 1..n |-> i]

LineLists ==
    {<<>>} \cup UNION {[1..n -> {LineOf(k) : k \in 0..MaxLineLen}] : n \in 1..MaxLines}

\* the body rows the model follows the loop for
MaxRows == MaxLines * MaxLineLen + 1

\* a box whose body is one character narrower
ChunkLenNarrow(width) == width - 5

\* width - 4: the characters of a line that fit into one row
ChunkLen(width) == width - 4

\* the position a slice bound k stands for in a string of n characters: a
\* negative bound counts from the end, and both kinds are clamped to 0..n
SliceBound(k, n) ==
    IF k < 0 THEN (IF n + k > 0 THEN n + k ELSE 0)
    ELSE (IF k < n THEN k ELSE n)

\* line[:k] and line[k:]
SliceTo(line, k) == SubSeq(line, 1, SliceBound(k, Len(line)))
SliceFrom(line, k) == SubSeq(line, SliceBound(k, Len(line)) + 1, Len(line))

\* len(s.ljust(w))
LjustLen(s, w) == IF Len(s) > w THEN Len(s) ELSE w

\* print("# " + chunk.ljust(width - 4) + " #"): the row's text, its length,
\* and the index of the line it belongs to
Row(chunk, width, i) ==
    [chunk |-> chunk, len |-> 2 + LjustLen(chunk, ChunkLen(width)) + 2, of |-> i]

InitPrintBox ==
    /\ script = "print_box"
    /\ scenario = 1
    /\ pc = "print_box"
    /\ user_input = NoText
    /\ calls = <<>>
    /\ received = <<>>
    /\ result = NoValidation
    /\ details = NoDetails
    /\ classification = NoClassification
    /\ outcome = "none"
    /\ error = "none"
    /\ ret = Unset
    /\ task = [t \in Tasks |-> "none"]
    /\ taskResult = [t \in Tasks |-> NoTaskResult]
    /\ taskError = [t \in Tasks |-> "none"]
    /\ doneq = <<>>
    /\ nfinished = 0
    /\ outer = "none"
    /\ outerError = "none"
    /\ loop = "none"
    /\ printed = <<>>
    /\ tool = NoTool
    /\ parsed = NoParsed
    /\ \E w \in Widths, ls \in LineLists :
          box = [NoBox EXCEPT !.width = w, !.lines = ls, !.todo = ls]

otherVars == <<script, scenario, user_input, calls, received, result, details, classification,
               outcome, error, ret, fanoutVars, printed, tool, parsed>>

\* border, empty, title, empty, rule, empty
PrintHeader ==
    /\ script = "print_box"
    /\ pc = "print_box"
    /\ pc' = "for"
    /\ UNCHANGED <<box, otherVars>>

\* for line in lines: the next line is taken
ForNext ==
    /\ script = "print_box"
    /\ pc = "for"
    /\ box.todo # <<>>
    /\ box' = [box EXCEPT !.line = Head(box.todo), !.todo = Tail(box.todo),
                          !.index = @ + 1]
    /\ pc' = "while"
    /\ UNCHANGED otherVars

\* while len(line) > width - 4: one chunk is printed and cut off
WhileChunk ==
    /\ script = "print_box"
    /\ pc = "while"
    /\ Len(box.line) > ChunkLen(box.width)
    /\ Len(box.rows) < MaxRows
    /\ LET chunk == SliceTo(box.line, ChunkLen(box.width)) IN
       box' = [box EXCEPT !.rows = Append(@, Row(chunk, box.width, box.index)),
                          !.line = SliceFrom(box.line, ChunkLen(box.width))]
    /\ UNCHANGED <<pc, otherVars>>

\* the loop's condition is false: the rest of the line is printed
WhileExit ==
    /\ script = "print_box"
    /\ pc = "while"
    /\ ~(Len(box.line) > ChunkLen(box.width))
    /\ box' = [box EXCEPT !.rows = Append(@, Row(box.line, box.width, box.index)),
                          !.line = <<>>]
    /\ pc' = "for"
    /\ UNCHANGED otherVars

\* the lines are exhausted: empty, border
PrintFooter ==
    /\ script = "print_box"
    /\ pc = "for"
    /\ box.todo = <<>>
    /\ pc' = "printed"
    /\ UNCHANGED <<box, otherVars>>

NextPrintBox ==
    \/ PrintHeader
    \/ ForNext
    \/ WhileChunk
    \/ WhileExit
    \/ PrintFooter

\* the interpreter runs the next statement
SpecPrintBox == InitPrintBox /\ [][NextPrintBox]_vars /\ WF_vars(NextPrintBox)

(***************************************************************************)
(* Properties.                                                             *)
(***************************************************************************)
Extracting == CountOf(calls, "extract_event") >= 1

\* C1: in the Chain Orchestrator, for every validation result the chain
\* proceeds to extraction if and only if is_event is true and
\* confidence_score >= 0.7 (0.7 itself accepted); in every other case it
\* returns None, the Rejected sentinel.
C1_ChainGate ==
    (script = "chain" /\ result.valid) =>
        LET accepted == result.is_event /\ result.confidence_score >= 7000 IN
        /\ Extracting <=> accepted
        /\ ~accepted => (pc = "done" /\ outcome = "Rejected" /\ ret = None)

\* the boundary case: flag true, confidence exactly 0.7, extraction under way
C1_Witness ==
    /\ script = "chain"
    /\ result.valid /\ result.is_event /\ result.confidence_score = 7000
    /\ pc = "extract_event"

\* C2: over one run of the Chain Orchestrator in which no step fails, the
\* Completion Client is called exactly once when the validation step rejects
\* and exactly three times (validate, extract, confirm) when it proceeds.
C2_ChainCallCount ==
    (script = "chain" /\ pc = "done" /\ outcome # "Failure") =>
        \/ /\ outcome = "Rejected"
           /\ StepsOf(calls) = <<"validate_event_description">>
        \/ /\ outcome = "Proceed"
           /\ StepsOf(calls) =
                <<"validate_event_description", "extract_event", "generate_confirmation">>

\* a run that proceeded to the end, and made its three calls
C2_Witness ==
    /\ script = "chain"
    /\ pc = "done" /\ outcome = "Proceed"
    /\ Len(calls) = 3 /\ Len(received) = 3

\* C3 (as claimed): the relevance component of process_validation's result
\* is true exactly when is_calender_request is true and confidence_score
\* >= 0.7, so flag true with confidence exactly 0.7 is accepted.
C3_RelevanceInclusive ==
    (script = "fanout" /\ pc = "done" /\ outcome = "Proceed") =>
        LET v == taskResult["validate_description"] IN
        ret.first = (v.is_calender_request /\ v.confidence_score >= FanoutThreshold)

HandlerCalls == CountOf(calls, "handle_new_event") + CountOf(calls, "handle_modify_event")

\* C4: in the Router, whenever the classification's confidence_score is
\* below 0.7 the result is None (Rejected) and no handler is invoked, for
\* every label; the label does not matter below the threshold.
C4_RouterLowConfidence ==
    (script = "router" /\ classification.valid /\ classification.confidence_score < 7000) =>
        /\ pc = "done" /\ outcome = "Rejected" /\ ret = None
        /\ HandlerCalls = 0
        /\ StepsOf(calls) = <<"clasify_request">>

\* a confident-looking label just under the threshold
C4_Witness ==
    /\ script = "router"
    /\ classification.valid
    /\ classification.request_type = "new_event"
    /\ classification.confidence_score = 6999
    /\ outcome = "Rejected"

\* C5: in the Router, with confidence_score >= 0.7, new_event invokes
\* handle_new_event once and handle_modify_event never, modify_event the
\* reverse, other neither (and None is returned); no request ever sees two
\* handler invocations.
C5_RouterDispatch ==
    script = "router" =>
        /\ HandlerCalls <= 1
        /\ (classification.valid /\ classification.confidence_score >= 7000) =>
              /\ classification.request_type = "new_event" =>
                    /\ CountOf(calls, "handle_new_event") = 1
                    /\ CountOf(calls, "handle_modify_event") = 0
              /\ classification.request_type = "modify_event" =>
                    /\ CountOf(calls, "handle_modify_event") = 1
                    /\ CountOf(calls, "handle_new_event") = 0
              /\ classification.request_type = "other" =>
                    /\ HandlerCalls = 0
                    /\ pc = "done" /\ outcome = "Rejected" /\ ret = None

\* a modification request at the threshold, its handler's call in flight
C5_Witness ==
    /\ script = "router"
    /\ classification.valid
    /\ classification.request_type = "modify_event"
    /\ classification.confidence_score = 7000
    /\ pc = "handle_modify_event"

\* the classification answer is a JSON object that is well-formed but for,
\* possibly, its label, and the label is not one that has a handler
UnmappedLabel ==
    /\ script = "router"
    /\ Len(received) >= 1
    /\ received[1].resp.kind = "object"
    /\ LET f == received[1].resp.fields IN
       /\ f.description.t = "str"
       /\ ConfFieldOk(f.confidence_score)
       /\ f.request_type.t = "enum"
       /\ f.request_type.e \notin {"new_event", "modify_event"}

WrittenLabel == received[1].resp.fields.request_type.e

\* C6 (as claimed): when the classification output carries a label that is
\* not a mapped one, a label outside the closed enumeration included, the
\* request ends Rejected with no handler invoked, not as a failure.
C6_UnmappedRejected ==
    UnmappedLabel => (pc = "done" /\ outcome = "Rejected" /\ HandlerCalls = 0)

\* C6 (amended): the label other ends the request Rejected (at a confidence
\* of 0.7 or more as below it) with no handler invoked; a label outside the
\* enumeration fails the schema in clasify_request, and the request ends as
\* a failure (ValidationError), again with no handler invoked.
C6_UnmappedOutcome ==
    UnmappedLabel =>
        /\ HandlerCalls = 0
        /\ pc \in {"done", "exited"}
        /\ IF WrittenLabel \in RequestLabels
           THEN outcome = "Rejected" /\ ret = None /\ error = "none"
           ELSE outcome = "Failure" /\ error = "ValidationError" /\ ret = Unset

\* a label outside the enumeration has ended the request as a failure
C6_Witness ==
    /\ UnmappedLabel
    /\ WrittenLabel = "delete_event"
    /\ outcome = "Failure"

\* C7: in the Fan-out Coordinator the combination step (building the
\* returned pair) executes only in states where both validate_description
\* and security_checks have completed successfully, never while either is
\* still in flight, under every interleaving of the two tasks.
C7_CombineAfterBoth ==
    [][(script = "fanout" /\ ret.kind # "pair" /\ ret'.kind = "pair") =>
          \A t \in Tasks : task[t] = "succeeded" /\ taskResult[t].valid]_vars

\* the pair has been built, security_checks having finished first
C7_Witness ==
    /\ script = "fanout"
    /\ ret.kind = "pair"
    /\ Len(received) = 2 /\ received[1].step = "security_checks"

\* C8: if either validate_description or security_checks raises,
\* process_validation ends in failure and never returns a pair of booleans,
\* whatever the outcome of the other task and whichever finishes first.
C8_FailureNeverPair ==
    (script = "fanout" /\ \E t \in Tasks : task[t] = "failed") =>
        /\ ret.kind # "pair"
        /\ outcome # "Proceed"
        /\ pc \in {"done", "exited"} =>
              /\ outcome = "Failure"
              /\ \E t \in Tasks : task[t] = "failed" /\ error = taskError[t]

\* the other task succeeded, and first, and the coordinator has failed
C8_Witness ==
    /\ script = "fanout"
    /\ task["validate_description"] = "succeeded"
    /\ task["security_checks"] = "failed"
    /\ received[1].step = "validate_description"
    /\ pc = "done" /\ outcome = "Failure"

Completed(t) == task[t] \in {"succeeded", "failed"}

\* C9 (as claimed): in every run, runs where one task fails while the other
\* is in flight included, process_validation does not return or raise until
\* both tasks have reached a completed (succeeded or failed) state.
C9_WaitsForAll ==
    (script = "fanout" /\ pc = "done") => \A t \in Tasks : Completed(t)

\* C9 (amended): process_validation does not return until both tasks have
\* succeeded; it raises once gather has seen the first failed task, with
\* that task's exception, and does not wait for a sibling still in flight.
C9_WaitsForAllToReturn ==
    (script = "fanout" /\ pc = "done") =>
        /\ outcome = "Proceed" => \A t \in Tasks : task[t] = "succeeded"
        /\ outcome = "Failure" =>
              /\ \E t \in Tasks : task[t] = "failed" /\ error = taskError[t]
              /\ \A t \in Tasks : task[t] \in {"inflight", "succeeded", "failed"}

\* process_validation has raised while security_checks is still in flight
C9_Witness ==
    /\ script = "fanout"
    /\ pc = "done" /\ outcome = "Failure"
    /\ task["validate_description"] = "failed"
    /\ task["security_checks"] = "inflight"

\* the step in which gather takes note of a failed task, or in which
\* process_validation raises
CoordinatorFails ==
    \/ outer = "pending" /\ outer' = "exception"
    \/ pc = "gather" /\ pc' = "done" /\ outcome' = "Failure"

\* C10: when one task fails while its sibling is still in flight, the
\* coordinator issues no cancellation to the sibling: the sibling's call
\* stays in flight, and no step of process_validation moves a task to the
\* cancelled state (only the closing of the loop does).
C10_NoCancellation ==
    [][/\ (script = "fanout" /\ CoordinatorFails) =>
             \A t \in Tasks : task[t] = "inflight" => task'[t] = "inflight"
       /\ \A t \in Tasks :
             (task[t] # "cancelled" /\ task'[t] = "cancelled") =>
                 (pc = "done" /\ loop = "running" /\ loop' = "closed")]_vars

\* gather has taken the failure of security_checks while
\* validate_description is still in flight
C10_Witness ==
    /\ script = "fanout"
    /\ outer = "exception"
    /\ task["security_checks"] = "failed"
    /\ task["validate_description"] = "inflight"

\* the answer that arrived for the call of step
AnswerOf(step) ==
    received[CHOOSE i \in 1..Len(received) : received[i].step = step].resp

Returned == script = "fanout" /\ ret.kind = "pair"

\* C11 (as claimed): the Fan-out Coordinator reduces its two sub-results to
\* one boolean decision, the logical AND of (is_calender_request and
\* confidence above the threshold) with is_safe, true only when the input
\* is both relevant and safe.
C11_SingleDecision ==
    Returned =>
        LET v == taskResult["validate_description"]
            decision == (v.is_calender_request /\ v.confidence_score > FanoutThreshold)
                            /\ taskResult["security_checks"].is_safe IN
        ret.first = decision /\ ret.second = decision

\* C11 (amended): the Fan-out Coordinator does not reduce its sub-results:
\* it returns the pair (relevance, safety).  The relevance component is
\* true when is_calender_request is true and the confidence is above 0.7
\* and false when the flag is false or the confidence is below 0.7; the
\* safety component is is_safe.  Neither component depends on the other.
C11_PairNotReduced ==
    Returned =>
        LET v == taskResult["validate_description"] IN
        /\ ret.second = taskResult["security_checks"].is_safe
        /\ (v.is_calender_request /\ v.confidence_score > FanoutThreshold) => ret.first
        /\ ret.first => (v.is_calender_request /\ v.confidence_score >= FanoutThreshold)

\* relevant but not safe: the two components differ
C11_Witness == Returned /\ ret.first /\ ~ret.second

\* C12: the safety component of process_validation's result equals the
\* is_safe that security_checks received, whatever validate_description
\* received: runs that agree on the security answer agree on the safety
\* component, and is_safe = false gives a false safety component.
C12_SafetyFromSecurityOnly ==
    Returned => ret.second = AnswerOf("security_checks").fields.is_safe.b

\* an unsafe input that is a calendar request beyond doubt
C12_Witness ==
    /\ Returned
    /\ ~ret.second
    /\ taskResult["validate_description"].is_calender_request
    /\ taskResult["validate_description"].confidence_score = 10000

\* C13: the two tasks have no ordering dependency: whichever answer arrives
\* first, the first component of the pair comes from the answer to
\* validate_description and the second from the answer to security_checks.
C13_OrderIndependent ==
    Returned =>
        /\ taskResult["validate_description"] =
              TaskTyped("validate_description", AnswerOf("validate_description").fields)
        /\ taskResult["security_checks"] =
              TaskTyped("security_checks", AnswerOf("security_checks").fields)
        /\ ret.first = Relevant(taskResult["validate_description"])
        /\ ret.second = taskResult["security_checks"].is_safe

\* security_checks answered first, and the request is relevant and safe
C13_Witness ==
    /\ Returned
    /\ received[1].step = "security_checks"
    /\ ret.first /\ ret.second

Synchronous == script \in {"chain", "router"}

\* positions of the answers of the given kind among those received
AnswersOfKind(k) == {i \in 1..Len(received) : received[i].resp.kind = k}

\* a synchronous orchestration has been aborted by its last answer with
\* the error err: nothing was called after it and nothing is returned
AbortedBy(i, err) ==
    /\ i = Len(received)
    /\ Len(calls) = Len(received)
    /\ pc \in {"done", "exited"}
    /\ outcome = "Failure"
    /\ error = err
    /\ ret = Unset

\* the step has produced a typed result
TypedResultOf(step) ==
    CASE step = "validate_event_description" -> result.valid
      [] step = "extract_event"              -> details.valid
      [] step = "clasify_request"            -> classification.valid
      [] step \in Tasks                      -> taskResult[step].valid
      [] OTHER                               -> ret.kind \in {"EventConfirmation",
                                                              "ModifyConfirmation"}

\* a task of the fan-out has failed with err: no call beyond the two of
\* gather exists, and the invocation neither proceeds nor rejects
TaskFailedBy(step, err) ==
    /\ task[step] = "failed"
    /\ taskError[step] = err
    /\ ~taskResult[step].valid
    /\ Len(calls) = NumTasks
    /\ outcome \in {"none", "Failure"}
    /\ ret = Unset

\* C14: every Pattern Step invocation issues exactly one Completion Client
\* call, also when the call raises: the transport error is re-raised, the
\* step makes no second attempt, and the enclosing orchestration calls no
\* later step.
C14_OneCallNoRetry ==
    script \in PatternScripts =>
        /\ \A i \in 1..Len(calls) : CountOf(calls, calls[i].step) = 1
        /\ \A i \in 1..Len(received) :
              /\ CountOf(received, received[i].step) = 1
              /\ CountOf(calls, received[i].step) = 1
        /\ \A i \in AnswersOfKind("transport_error") :
              IF Synchronous THEN AbortedBy(i, "TransportError")
              ELSE TaskFailedBy(received[i].step, "TransportError")

\* the second step of the chain met a transport error and the script ended
C14_Witness ==
    /\ script = "chain"
    /\ pc = "exited"
    /\ Len(received) = 2
    /\ received[2].step = "extract_event"
    /\ received[2].resp.kind = "transport_error"

\* C15: when the Completion Client returns a message whose content is None
\* the step fails with an error and produces no typed result, and the
\* enclosing Chain, Router or Fan-out invocation is aborted: it issues no
\* further call of its own and ends neither in Proceed nor in Rejected.
C15_NoContentAborts ==
    script \in PatternScripts =>
        \A i \in AnswersOfKind("no_content") :
            /\ ~TypedResultOf(received[i].step)
            /\ IF Synchronous THEN AbortedBy(i, "ValueError")
               ELSE TaskFailedBy(received[i].step, "ValueError")

\* a handler of the router received a message without content
C15_Witness ==
    /\ script = "router"
    /\ pc = "exited"
    /\ Len(received) = 2
    /\ received[2].step = "handle_modify_event"
    /\ received[2].resp.kind = "no_content"

\* the schema of each step: the declared type of every field
Schema(step) ==
    CASE step = "validate_event_description" ->
            [description |-> "str", is_event |-> "bool", confidence_score |-> "confidence"]
      [] step \in {"extract_event", "handle_new_event"} ->
            [name |-> "str", date |-> "str", duration |-> "int", participants |-> "list"]
      [] step = "generate_confirmation" ->
            [confirmation_message |-> "str", calendar_link |-> "optional str"]
      [] step = "clasify_request" ->
            [description |-> "str", request_type |-> "label", confidence_score |-> "confidence"]
      [] step = "handle_modify_event" ->
            [description |-> "str", updated_date |-> "str",
             participants_to_add |-> "list", participants_to_remove |-> "list"]
      [] step = "validate_description" ->
            [is_calender_request |-> "bool", confidence_score |-> "confidence"]
      [] step = "security_checks" ->
            [is_safe |-> "bool", risk_flags |-> "list"]

\* the JSON types a declared type is written as
JsonTypes(declared) ==
    CASE declared = "str"          -> {"str"}
      [] declared = "bool"         -> {"bool"}
      [] declared = "list"         -> {"list"}
      [] declared = "label"        -> {"enum"}
      [] declared = "optional str" -> {"str", "null"}
      [] OTHER                     -> {"num"}

\* the JSON types whose values convert to the declared type
Convertible(declared) ==
    IF declared = "confidence" THEN {"num", "numstr"} ELSE JsonTypes(declared)

MissingField(step, f) == \E k \in DOMAIN Schema(step) : f[k].t = "missing"

WrongType(step, f) ==
    \E k \in DOMAIN Schema(step) :
        f[k].t # "missing" /\ f[k].t \notin JsonTypes(Schema(step)[k])

NotConvertible(step, f) ==
    \E k \in DOMAIN Schema(step) :
        f[k].t # "missing" /\ f[k].t \notin Convertible(Schema(step)[k])

OutOfRange(step, f) ==
    \E k \in DOMAIN Schema(step) :
        /\ Schema(step)[k] = "confidence"
        /\ f[k].t \in Convertible("confidence")
        /\ (f[k].n < ConfMin \/ f[k].n > ConfMax)

OutsideEnumeration(step, f) ==
    \E k \in DOMAIN Schema(step) :
        Schema(step)[k] = "label" /\ f[k].t = "enum" /\ f[k].e \notin RequestLabels

\* the step that received answer i failed with err and left no typed result
StepFailed(i, err) ==
    /\ ~TypedResultOf(received[i].step)
    /\ IF Synchronous THEN AbortedBy(i, err) ELSE TaskFailedBy(received[i].step, err)

\* C16 (as claimed): the Typed Result Parser fails, and the step returns no
\* typed result, whenever the content is not valid JSON, a required field
\* is missing, a field has the wrong type, or confidence_score is outside
\* its declared range.
C16_WrongTypeFails ==
    script \in PatternScripts =>
        \A i \in 1..Len(received) :
            LET a == received[i] IN
            /\ a.resp.kind = "not_json" => StepFailed(i, "JSONDecodeError")
            /\ (a.resp.kind = "object" /\
                  (\/ MissingField(a.step, a.resp.fields)
                   \/ WrongType(a.step, a.resp.fields)
                   \/ OutOfRange(a.step, a.resp.fields)))
                 => StepFailed(i, "ValidationError")

\* C16 (amended): the Typed Result Parser yields a populated instance or
\* fails.  It fails, and the step returns no typed result, when the content
\* is not valid JSON, a required field is missing, a field's value cannot
\* be converted to the declared type, a label is outside the enumeration,
\* or confidence_score, after conversion, is outside its declared range.
\* A value of another JSON type that converts to the declared type (a
\* string spelling a number, for a float field) is accepted.
C16_ParserContract ==
    script \in PatternScripts =>
        \A i \in 1..Len(received) :
            LET a == received[i]
                f == a.resp.fields IN
            /\ a.resp.kind = "not_json" => StepFailed(i, "JSONDecodeError")
            /\ a.resp.kind = "object" =>
                 IF \/ MissingField(a.step, f)
                    \/ NotConvertible(a.step, f)
                    \/ OutsideEnumeration(a.step, f)
                    \/ OutOfRange(a.step, f)
                 THEN StepFailed(i, "ValidationError")
                 ELSE TypedResultOf(a.step)

\* a confidence written as a string was accepted, and the gate let it pass
C16_Witness ==
    /\ script = "chain"
    /\ Len(received) >= 1
    /\ received[1].resp.kind = "object"
    /\ received[1].resp.fields.confidence_score = JNumStr(7001)
    /\ result.valid /\ result.confidence_score = 7001
    /\ Extracting

\* C17: every typed result with a confidence_score that its step has
\* returned (EventValidation, RequestType, CalenderValidation) has the score
\* in [0.0, 1.0], so the gates of the Chain Orchestrator, the Router and
\* the Fan-out Coordinator only see in-range values.
C17_ConfidenceInRange ==
    /\ result.valid =>
          result.confidence_score >= 0 /\ result.confidence_score <= 10000
    /\ classification.valid =>
          classification.confidence_score >= 0 /\ classification.confidence_score <= 10000
    /\ taskResult["validate_description"].valid =>
          /\ taskResult["validate_description"].confidence_score >= 0
          /\ taskResult["validate_description"].confidence_score <= 10000
    /\ \A i \in 1..Len(received) :
          (/\ received[i].step \in {"validate_event_description", "clasify_request",
                                    "validate_description"}
           /\ received[i].resp.kind = "object"
           /\ OutOfRange(received[i].step, received[i].resp.fields))
             => outcome \notin {"Proceed", "Rejected"}

\* the router's gate was evaluated on the lower end of the range
C17_Witness ==
    /\ script = "router"
    /\ classification.valid
    /\ classification.confidence_score = 0
    /\ outcome = "Rejected"

ProtocolOrder ==
    <<"first_request", "first_returned", "local_call", "local_returned",
      "second_request", "second_returned", "parsed">>

IsPrefix(a, b) == Len(a) <= Len(b) /\ \A i \in 1..Len(a) : a[i] = b[i]

\* the first call returned a message with at least one tool call
ReturnedToolCall ==
    /\ Len(received) >= 1
    /\ received[1].step = "first_request"
    /\ received[1].resp.kind = "message"
    /\ received[1].resp.present
    /\ Len(received[1].resp.tool_calls) >= 1

\* C19: a tool-augmented step follows the fixed order first call, local
\* function, second call, parse: the local function is not invoked before
\* the first call has returned a tool call, the second call is not issued
\* before the local function has returned, and the success path makes
\* exactly two Completion Client calls and one local call.
C19_TwoCallProtocol ==
    script \in ToolScripts =>
        /\ IsPrefix(tool.trace, ProtocolOrder)
        /\ IsPrefix(StepsOf(calls), <<"first_request", "second_request">>)
        /\ Len(tool.local) >= 1 => ReturnedToolCall
        /\ CountOf(calls, "second_request") >= 1 =>
              Len(tool.local) >= 1 /\ tool.data \in LocalData
        /\ tool.response_model.valid => Len(received) = 2
        /\ outcome = "Proceed" =>
              /\ StepsOf(calls) = <<"first_request", "second_request">>
              /\ Len(tool.local) = 1
              /\ tool.local[1].function = LocalFunction(script)
              /\ tool.trace = ProtocolOrder
              /\ tool.response_model.valid

\* the retrieval script succeeded on a message that carried two tool calls
C19_Witness ==
    /\ script = "retrieval"
    /\ pc = "exited"
    /\ outcome = "Proceed"
    /\ Len(tool.tool_calls) = 2

\* the first call returned a message without a tool invocation
NoToolInvocation ==
    /\ Len(received) >= 1
    /\ received[1].step = "first_request"
    /\ received[1].resp.kind = "message"
    /\ ~received[1].resp.present \/ Len(received[1].resp.tool_calls) = 0

\* C20: when the first call returns no tool invocation (tool_calls absent,
\* or present but empty) the step fails with an error: the local function
\* is never invoked, the second call is never issued, and nothing is
\* parsed or printed.
C20_NoToolCallFails ==
    (script \in ToolScripts /\ NoToolInvocation) =>
        /\ pc \in {"done", "exited"}
        /\ outcome = "Failure"
        /\ error \in {"AssertionError", "IndexError"}
        /\ tool.local = <<>>
        /\ StepsOf(calls) = <<"first_request">>
        /\ Len(received) = 1
        /\ ~tool.response_model.valid
        /\ printed = <<>>

\* the weather script ended on an empty tool_calls list
C20_Witness ==
    /\ script = "tools"
    /\ pc = "exited"
    /\ NoToolInvocation
    /\ received[1].resp.present
    /\ error = "IndexError"

\* C21 (as claimed): the local function a tool-augmented step executes is
\* the one the first tool call names: a tool call naming another function
\* does not lead to the script's local function being executed.
C21_NameDeterminesFunction ==
    script \in ToolScripts =>
        \A i \in 1..Len(tool.local) : tool.local[i].function = tool.local[i].name

RolesOf(ms) == [i \in 1..Len(ms) |-> ms[i].role]

SecondRequestIssued == script \in ToolScripts /\ CountOf(calls, "second_request") = 1

\* C22: the second request of a tool-augmented step carries the messages
\* system, user, the assistant message of the first response unchanged, and
\* one tool message, in that order; the tool message's tool_call_id is the
\* id of the first tool call of the first response and its content is the
\* JSON encoding of what the local function returned.  Of several tool
\* calls only the first is answered.
C22_SecondRequestMessages ==
    SecondRequestIssued =>
        LET ms == tool.messages
            first == received[1].resp IN
        /\ RolesOf(ms) = <<"system", "user", "assistant", "tool">>
        /\ ms[2].content = user_input
        /\ ms[3].tool_calls = first.tool_calls
        /\ ms[4].tool_call_id = first.tool_calls[1].id
        /\ ms[4].content = <<"json", tool.data[2]>>
        /\ tool.data \in LocalData
        /\ \A i \in 2..Len(first.tool_calls) :
              \A j \in 1..Len(ms) : ms[j].tool_call_id # first.tool_calls[i].id

\* the weather script has sent its second request after a first response
\* with two tool calls
C22_Witness ==
    /\ script = "tools"
    /\ pc = "second_request"
    /\ SecondRequestIssued
    /\ Len(received[1].resp.tool_calls) = 2

\* answer i was parsed into a typed result
Parsed(i) ==
    /\ i <= Len(received)
    /\ received[i].resp.kind = "object"
    /\ ~MissingField(received[i].step, received[i].resp.fields)
    /\ ~NotConvertible(received[i].step, received[i].resp.fields)
    /\ ~OutsideEnumeration(received[i].step, received[i].resp.fields)
    /\ ~OutOfRange(received[i].step, received[i].resp.fields)

\* C23: once the chain's gate accepts, the steps run in strict sequence on
\* each other's typed output: extract_event is called after
\* validate_event_description has returned, with the validation's rephrased
\* description and not the user's input; generate_confirmation is called
\* after extract_event has returned, with its EventDetails; and when neither
\* fails the orchestrator returns generate_confirmation's confirmation.
C23_ChainSequence ==
    script = "chain" =>
        /\ Len(calls) <= Len(received) + 1
        /\ Len(calls) >= 2 =>
              /\ Parsed(1)
              /\ calls[2].step = "extract_event"
              /\ calls[2].arg = received[1].resp.fields.description.s
              /\ calls[2].arg # user_input
        /\ Len(calls) >= 3 =>
              /\ Parsed(2)
              /\ calls[3].step = "generate_confirmation"
              /\ calls[3].details.valid
              /\ calls[3].details.name = received[2].resp.fields.name.s
              /\ calls[3].details.date = received[2].resp.fields.date.s
              /\ calls[3].details.duration = received[2].resp.fields.duration.n
        /\ (pc = "done" /\ Len(calls) = 3) =>
              IF Parsed(3)
              THEN /\ outcome = "Proceed"
                   /\ ret.kind = "EventConfirmation"
                   /\ ret.message = received[3].resp.fields.confirmation_message.s
                   /\ ret.link = received[3].resp.fields.calendar_link.s
              ELSE outcome = "Failure"

\* generate_confirmation is in flight on the details extracted from the
\* second rephrasing
C23_Witness ==
    /\ script = "chain"
    /\ pc = "generate_confirmation"
    /\ calls[2].arg = <<"rephrased", 2>>
    /\ calls[3].details.valid

\* C28: every confirmation the Router returns has success = true: a handler
\* returns a ModifyConfirmation with success = true built from the
\* extracted details or fails; not processed is signalled only by None or
\* by an error.
C28_SuccessAlwaysTrue ==
    script = "router" =>
        /\ ret.kind \in {"unset", "None", "ModifyConfirmation"}
        /\ ret.kind = "ModifyConfirmation" =>
              /\ ret.success
              /\ outcome = "Proceed"
              /\ Parsed(2)
              /\ ret.message[2] =
                    (IF received[2].step = "handle_new_event"
                     THEN received[2].resp.fields.name.s[2]
                     ELSE received[2].resp.fields.description.s[2])
        /\ (pc = "done" /\ ret.kind # "ModifyConfirmation") =>
              \/ outcome = "Rejected" /\ ret = None
              \/ outcome = "Failure" /\ error # "none"

\* handle_new_event has returned its confirmation
C28_Witness ==
    /\ script = "router"
    /\ pc = "done"
    /\ ret.kind = "ModifyConfirmation"
    /\ ret.success
    /\ received[2].step = "handle_new_event"

\* C29: over one Router invocation in which no step fails the Completion
\* Client is called once when the request is rejected and twice when a
\* handler is dispatched; the handler's call is issued after the
\* classification call has returned and carries the classification's
\* rephrased description, not the caller's text.
C29_RouterCallCount ==
    script = "router" =>
        /\ Len(calls) <= Len(received) + 1
        /\ (pc = "done" /\ outcome = "Rejected") => Len(calls) = 1 /\ Len(received) = 1
        /\ (pc = "done" /\ outcome = "Proceed") => Len(calls) = 2 /\ Len(received) = 2
        /\ Len(calls) >= 2 =>
              /\ Len(calls) = 2
              /\ Parsed(1)
              /\ calls[2].step \in {"handle_new_event", "handle_modify_event"}
              /\ calls[2].arg = received[1].resp.fields.description.s
              /\ calls[2].arg # user_input

\* handle_modify_event is in flight on the first rephrasing
C29_Witness ==
    /\ script = "router"
    /\ pc = "handle_modify_event"
    /\ Len(received) = 1
    /\ calls[2].arg = <<"rephrased", 1>>

\* the invocation of a synchronous script has terminated
Terminated == Synchronous /\ (pc = "done" \/ (pc = "exited" /\ outcome = "Failure"))

\* the gate or the dispatch turns the first answer, read as written, away
TurnedAway ==
    LET f == received[1].resp.fields IN
    IF script = "chain"
    THEN ~f.is_event.b \/ f.confidence_score.n < 7000
    ELSE f.confidence_score.n < 7000 \/ f.request_type.e \notin {"new_event", "modify_event"}

\* C24: every terminated invocation of the Chain Orchestrator or the Router
\* ends in exactly one of Proceed (a typed confirmation returned), Rejected
\* (None returned) or Failure (an error propagated).  Rejected comes only
\* from the gate or the dispatch on a successfully parsed result; a failing
\* step never yields Rejected, and a low-confidence or non-event result
\* never yields Failure.
C24_ThreeOutcomes ==
    Terminated =>
        /\ outcome \in {"Proceed", "Rejected", "Failure"}
        /\ outcome = "Proceed" <=> ret.kind \in {"EventConfirmation", "ModifyConfirmation"}
        /\ outcome = "Rejected" <=> ret = None
        /\ outcome = "Failure" <=> error # "none"
        /\ outcome = "Failure" => ret = Unset
        /\ outcome = "Rejected" => Len(received) = 1 /\ Parsed(1) /\ TurnedAway
        /\ (\E i \in 1..Len(received) : ~Parsed(i)) => outcome = "Failure"
        /\ (Parsed(1) /\ TurnedAway) => outcome = "Rejected"

\* the router turned away a request it was sure is of type other
C24_Witness ==
    /\ script = "router"
    /\ pc = "done"
    /\ outcome = "Rejected"
    /\ classification.request_type = "other"
    /\ classification.confidence_score = 10000

\* the outcome and the steps called, as a function of the answers alone
ExpectedOutcome(rcv) ==
    IF \E i \in 1..Len(rcv) : ~Parsed(i) THEN "Failure"
    ELSE IF TurnedAway THEN "Rejected"
    ELSE "Proceed"

ExpectedSteps(rcv) ==
    IF script = "chain"
    THEN SubSeq(<<"validate_event_description", "extract_event", "generate_confirmation">>,
                1, Len(rcv))
    ELSE IF Len(rcv) = 1 THEN <<"clasify_request">>
    ELSE <<"clasify_request",
           IF rcv[1].resp.fields.request_type.e = "new_event" THEN "handle_new_event"
                                                              ELSE "handle_modify_event">>

\* no local of an invocation holds a value
NothingRemembered ==
    /\ user_input = NoText /\ calls = <<>> /\ received = <<>>
    /\ result = NoValidation /\ details = NoDetails /\ classification = NoClassification
    /\ outcome = "none" /\ error = "none" /\ ret = Unset
    /\ script = "fanout" =>
          /\ \A t \in Tasks : task[t] = "none" /\ taskResult[t] = NoTaskResult
          /\ doneq = <<>> /\ nfinished = 0 /\ outer = "none"

\* C25: orchestration invocations carry no cross-call memory: between two
\* invocations of the same process nothing of the first is kept, and the
\* decision and the call sequence of an invocation are a function of its own
\* input and of the answers it receives, the same after a first invocation
\* that proceeded or was rejected as with none before it.
C25_NoCrossCallMemory ==
    script \in PatternScripts =>
        /\ pc = "idle" => NothingRemembered
        /\ Len(calls) >= 1 =>
              calls[1].arg = UserInput(scenario) /\ user_input = UserInput(scenario)
        /\ (Synchronous /\ pc = "done") =>
              /\ outcome = ExpectedOutcome(received)
              /\ StepsOf(calls) = ExpectedSteps(received)

\* the second scenario of the chain proceeded after the first was rejected
C25_Witness ==
    /\ script = "chain"
    /\ scenario = 2
    /\ pc = "done"
    /\ outcome = "Proceed"
    /\ Len(printed) = 1
    /\ printed[1].title = "EVENT SCHEDULING FAILED"

\* the title of the box a scenario prints when its invocation returned None
FailedTitle ==
    IF script = "chain" THEN "EVENT SCHEDULING FAILED" ELSE RouterTitle(scenario, FALSE)

\* what a step of a pattern script does at script level
ScriptLevelStep ==
    script \in PatternScripts =>
        /\ pc # "exited"
        /\ (pc = "done" /\ outcome = "Rejected") =>
              /\ printed' = Append(printed, [title |-> FailedTitle, scenario |-> scenario,
                                             line |-> FALSE])
              /\ scenario' = scenario + 1
              /\ pc' = "idle"
        /\ (pc = "done" /\ outcome = "Failure") =>
              /\ printed' = printed
              /\ scenario' = scenario
              /\ pc' \in {"done", "exited"}
        /\ (pc = "idle" /\ pc' # "exited") =>
              /\ Len(printed) = scenario - 1
              /\ user_input' = UserInput(scenario)

\* C27: at script level a Rejected decision prints the scenario's failed
\* box and the next scenario still runs, while an error raised inside a
\* scenario's orchestration is caught nowhere: no box is printed for that
\* scenario and no later scenario is started.
C27_FatalVersusRejected == [][ScriptLevelStep]_vars

\* the router runs its third scenario after two that were turned away
C27_Witness ==
    /\ script = "router"
    /\ scenario = 3
    /\ pc = "clasify_request"
    /\ Len(printed) = 2
    /\ printed[1].title = "EVENT CREATION FAILED"
    /\ printed[2].title = "EVENT MODIFICATION FAILED"

\* C26 (as claimed): an invocation reaches a terminal outcome only when
\* every call it issued has returned or failed: with a call that never
\* returns the invocation that issued it never reaches a terminal outcome.
C26_StallsOnAnyCall ==
    (script \in PatternScripts /\ pc = "done") => Len(received) = Len(calls)

\* an invocation is under way / has reached its terminal outcome
Running == script \in PatternScripts /\ pc \notin {"idle", "done", "exited"}
TerminalOutcome ==
    script \in PatternScripts /\ pc = "done" /\ outcome \in {"Proceed", "Rejected", "Failure"}

\* what has been answered when an invocation is at its terminal outcome
TerminalOnlyAfterAnswers ==
    (script \in PatternScripts /\ pc = "done") =>
        /\ Len(received) >= 1
        /\ Synchronous => Len(received) = Len(calls)
        /\ (script = "fanout" /\ outcome = "Proceed") => Len(received) = Len(calls)
        /\ (script = "fanout" /\ outcome = "Failure") =>
              \E i \in 1..Len(received) :
                  task[received[i].step] = "failed" /\ error = taskError[received[i].step]

\* C26 (amended): if every issued Completion Client call eventually returns
\* or fails, every invocation of the Chain Orchestrator, the Router and the
\* Fan-out Coordinator eventually reaches a terminal outcome.  A Chain or
\* Router invocation reaches one only after every call it issued has
\* returned or failed, and the Fan-out Coordinator returns its pair only
\* after both calls have returned; but the Fan-out Coordinator ends in
\* Failure as soon as one of its calls has failed, while the other may
\* never return.
C26_Termination == []TerminalOnlyAfterAnswers /\ (Running ~> TerminalOutcome)

\* process_validation has raised the transport error of security_checks
\* while the call of validate_description has not returned
C26_Witness ==
    /\ script = "fanout"
    /\ pc = "done"
    /\ outcome = "Failure"
    /\ error = "TransportError"
    /\ task["validate_description"] = "inflight"
    /\ task["security_checks"] = "failed"
    /\ Len(received) = 1

\* the chunks printed for line i, concatenated in the order printed
RECURSIVE ChunksOf(_, _)
ChunksOf(rows, i) ==
    IF rows = <<>> THEN <<>>
    ELSE (IF Head(rows).of = i THEN Head(rows).chunk ELSE <<>>) \o ChunksOf(Tail(rows), i)

SomeLineNonEmpty == \E i \in 1..Len(box.lines) : box.lines[i] # <<>>

\* what print_box has printed, for a width of at least 5
BoxWellFormed ==
    (script = "print_box" /\ box.width >= 5) =>
        /\ \A r \in 1..Len(box.rows) : box.rows[r].len = box.width
        /\ \A i \in 1..Len(box.lines) :
              ChunksOf(box.rows, i) \o (IF i = box.index THEN box.line ELSE <<>>) =
                  (IF i <= box.index THEN box.lines[i] ELSE <<>>)
        /\ pc = "printed" =>
              \A i \in 1..Len(box.lines) : ChunksOf(box.rows, i) = box.lines[i]

\* for a width of at most 4 a box with a non-empty line is never finished
NarrowBoxLoops ==
    (script = "print_box" /\ box.width <= 4 /\ SomeLineNonEmpty) => pc # "printed"

\* one iteration of the chunking loop shortens the line by width - 4
LoopShortens ==
    (script = "print_box" /\ box.width >= 5 /\ pc = "while" /\ pc' = "while"
        /\ box'.rows # box.rows) =>
        /\ Len(box'.line) = Len(box.line) - (box.width - 4)
        /\ Len(box'.line) < Len(box.line)

\* C30: print_box terminates for every list of lines and every width >= 5:
\* each iteration of the chunking loop shortens the remaining line by
\* width - 4 characters, every body row printed is exactly width characters
\* wide, and the chunks printed for a line, concatenated, are that line.
\* For width <= 4 and a non-empty line the loop never comes to its exit.
C30_PrintBoxTerminates ==
    /\ []BoxWellFormed
    /\ []NarrowBoxLoops
    /\ [][LoopShortens]_vars
    /\ ((script = "print_box" /\ box.width >= 5) ~> (pc = "printed"))

\* a line of three characters has been printed in three rows of a box of
\* width 5
C30_Witness ==
    /\ script = "print_box"
    /\ pc = "printed"
    /\ box.width = 5
    /\ box.lines = <<LineOf(3)>>
    /\ Len(box.rows) = 3

====
